---- MODULE Spec2Model ----
(***************************************************************************)
(* Model of internal/job/job.go of criteo/data-aggregation-api: the build *)
(* pipeline (precompute, compute, RunBuild) and the supervising loop      *)
(* StartBuildLoop, with the report observer, the per-device compute       *)
(* goroutines, the report channel of capacity one and the trigger channel.*)
(***************************************************************************)
EXTENDS Integers, Sequences, FiniteSets, Bags, TLC

\* ---------------------------------------------------------------- bounds
MaxDevices == 2     \* largest inventory FetchAssets may return
MaxCycles  == 2     \* iterations of the build loop that are explored
MaxPending == 1     \* signals that may wait on the trigger channel

\* ------------------------------------------------------ program constants
ReportChCap == 1            \* make(chan report.Message, 1)

VARIABLES
    pc,                  \* position of the StartBuildLoop goroutine
    cycle,               \* number of loop iterations started
    AllDevicesMustBuild, \* config.Cfg.Build.AllDevicesMustBuild
    reports,             \* report.Repository: status, messages, complete, successful
    reportCh,            \* the cycle's report channel: [buf, closed]
    watch,               \* the observer goroutine running reports.Watch
    triggerNewBuild,     \* the trigger channel: [pending, closed]
    wake,                \* the case the latest select took ("none": parked or no select yet)
    deviceRepo,          \* downstream router.DevicesRepository content
    inventory,           \* len(ingestorRepo.DeviceInventory); hostnames are 1..inventory
    idx,                 \* loop index of the range loops in precompute / compute
    devices,             \* the map built by precompute: [gen, m]
    allPrecomputeErrors, \* hostnames whose errors were joined
    task,                \* per hostname: position of its compute goroutine
    wgCount,             \* compute's sync.WaitGroup counter
    failed,              \* compute's shared failure flag
    builtCount,          \* compute's atomic.Uint32
    mutex,               \* compute's sync.Mutex: 0 free, else the holder's hostname
    result,              \* what RunBuild returned: [devs, built, err]
    sent,                \* bag of the messages sent on reportCh in this cycle
    preSet,              \* deviceRepo as it was when the cycle started
    computeInvoked,      \* whether compute() was called in this cycle
    closedInCycle        \* whether triggerNewBuild was closed while a cycle was running

vars == <<pc, cycle, AllDevicesMustBuild, reports, reportCh, watch, triggerNewBuild,
          wake, deviceRepo, inventory, idx, devices, allPrecomputeErrors, task, wgCount,
          failed, builtCount, mutex, result, sent, preSet, computeInvoked,
          closedInCycle>>

supVars  == <<pc, cycle>>
envVars  == <<triggerNewBuild, wake>>
locVars  == <<inventory, idx, devices, allPrecomputeErrors>>
compVars == <<task, wgCount, failed, builtCount, mutex>>

Hosts == 1..MaxDevices

\* ------------------------------------------------------------- messages
Msg(type, severity, host) == [type |-> type, severity |-> severity, host |-> host]

\* A nil map[string]*device.Device
NilDevices == [gen |-> 0, m |-> [h \in {} |-> "nil"]]

\* make(map[string]*device.Device) of cycle c
NewMap(c) == [gen |-> c, m |-> [h \in {} |-> "nil"]]

\* devs[k] = v on a Go map
MapSet(devs, k, v) ==
    [devs EXCEPT !.m = [h \in (DOMAIN devs.m) \cup {k} |-> IF h = k THEN v ELSE devs.m[h]]]

\* len(devs)
MapLen(devs) == Cardinality(DOMAIN devs.m)

NoResult == [devs |-> NilDevices, built |-> 0, err |-> "none"]

\* ------------------------------------------------------- channel helpers
CanSend == Len(reportCh.buf) < ReportChCap /\ ~reportCh.closed

\* reportCh <- msg
Send(msg) ==
    /\ CanSend
    /\ reportCh' = [reportCh EXCEPT !.buf = Append(@, msg)]
    /\ sent' = sent (+) SetToBag({msg})

\* ------------------------------------------------------- report.Repository
\* reports.StartNewReport(): a fresh report replaces the current one
StartNewReportValue(r) ==
    [status |-> r.status, messages |-> EmptyBag, stats |-> 0, complete |-> FALSE,
     successful |-> FALSE]

\* reports.UpdateStatus(s)
UpdateStatus(r, s) == [r EXCEPT !.status = s]

\* reports.UpdateStats(stats)
UpdateStats(r, built) == [r EXCEPT !.stats = built]

\* reports.MarkAsSuccessful()
MarkAsSuccessfulValue(r) == [r EXCEPT !.successful = TRUE]

\* reports.MarkAsComplete()
MarkAsCompleteValue(r) == [r EXCEPT !.complete = TRUE]

Init ==
    /\ pc = "loop"
    /\ cycle = 0
    /\ AllDevicesMustBuild \in BOOLEAN
    /\ reports = [status |-> "Idle", messages |-> EmptyBag, stats |-> 0,
                  complete |-> FALSE, successful |-> FALSE]
    /\ reportCh = [buf |-> <<>>, closed |-> TRUE]
    /\ watch = "none"
    /\ triggerNewBuild = [pending |-> 0, closed |-> FALSE]
    /\ wake = "none"
    /\ deviceRepo = NilDevices
    /\ inventory = 0
    /\ idx = 0
    /\ devices = NilDevices
    /\ allPrecomputeErrors = {}
    /\ task = [h \in Hosts |-> "none"]
    /\ wgCount = 0
    /\ failed = FALSE
    /\ builtCount = 0
    /\ mutex = 0
    /\ result = NoResult
    /\ sent = EmptyBag
    /\ preSet = NilDevices
    /\ computeInvoked = FALSE
    /\ closedInCycle = FALSE

\* ============================================================ StartBuildLoop
\* top of the for loop: reports.StartNewReport(); reportCh = make(chan, 1)
StartNewReport ==
    /\ pc = "loop"
    /\ cycle < MaxCycles
    /\ cycle' = cycle + 1
    /\ reports' = StartNewReportValue(reports)
    /\ reportCh' = [buf |-> <<>>, closed |-> FALSE]
    /\ sent' = EmptyBag
    /\ preSet' = deviceRepo
    /\ computeInvoked' = FALSE
    /\ result' = NoResult
    /\ inventory' = 0
    /\ idx' = 0
    /\ devices' = NilDevices
    /\ allPrecomputeErrors' = {}
    /\ task' = [h \in Hosts |-> "none"]
    /\ wgCount' = 0
    /\ failed' = FALSE
    /\ builtCount' = 0
    /\ mutex' = 0
    /\ pc' = "started"
    /\ UNCHANGED <<AllDevicesMustBuild, watch, envVars, deviceRepo, closedInCycle>>

\* mutant: the observer is started but the status is not set to InProgress
UpdateStatusInProgressMissing ==
    /\ pc = "started"
    /\ watch' = "running"
    /\ pc' = "fetch"
    /\ UNCHANGED <<cycle, AllDevicesMustBuild, reports, reportCh, envVars, deviceRepo,
                   locVars, compVars, result, sent, preSet, computeInvoked, closedInCycle>>

\* wg.Add(1); go reports.Watch(reportCh); reports.UpdateStatus(report.InProgress)
UpdateStatusInProgress ==
    /\ pc = "started"
    /\ watch' = "running"
    /\ reports' = UpdateStatus(reports, "InProgress")
    /\ pc' = "fetch"
    /\ UNCHANGED <<cycle, AllDevicesMustBuild, reportCh, envVars, deviceRepo, locVars,
                   compVars, result, sent, preSet, computeInvoked, closedInCycle>>

\* ================================================================== RunBuild
\* repository.FetchAssets(reportCh) failed: return nil, stats, err
FetchFailedResult == [devs |-> NilDevices, built |-> 0, err |-> "fetch"]

\* config.Cfg.Build.AllDevicesMustBuild and precomputeError != nil
AllMustBuildResult == [devs |-> NilDevices, built |-> 0, err |-> "allmustbuild"]

\* mutant: the partially built map is returned together with the compute error
ComputeDoneResultLeak(devs, built, computeFailed) ==
    [devs |-> devs, built |-> built, err |-> IF computeFailed THEN "compute" ELSE "nil"]

\* the tail of RunBuild after compute returned (successfullyBuilt, computeError)
ComputeDoneResult(devs, built, computeFailed) ==
    IF computeFailed
    THEN [devs |-> NilDevices, built |-> built, err |-> "compute"]
    ELSE [devs |-> devs, built |-> built, err |-> "nil"]

\* mutant: the fetch error is not returned at once, the pipeline goes on
FetchAssetsIgnoringError ==
    /\ pc = "fetch"
    /\ \/ /\ result' = FetchFailedResult
          /\ pc' = "reportstats"
          /\ UNCHANGED inventory
       \/ /\ \E n \in 0..MaxDevices : inventory' = n
          /\ pc' = "reportstats"
          /\ UNCHANGED result
    /\ UNCHANGED <<cycle, AllDevicesMustBuild, reports, reportCh, watch, envVars, deviceRepo,
                   idx, devices, allPrecomputeErrors, compVars, sent, preSet,
                   computeInvoked, closedInCycle>>

\* ingestorRepo, err := repository.FetchAssets(reportCh)
FetchAssets ==
    /\ pc = "fetch"
    /\ \/ /\ result' = FetchFailedResult
          /\ pc' = "returned"
          /\ UNCHANGED inventory
       \/ /\ \E n \in 0..MaxDevices : inventory' = n
          /\ pc' = "reportstats"
          /\ UNCHANGED result
    /\ UNCHANGED <<cycle, AllDevicesMustBuild, reports, reportCh, watch, envVars, deviceRepo,
                   idx, devices, allPrecomputeErrors, compVars, sent, preSet,
                   computeInvoked, closedInCycle>>

\* ingestorRepo.ReportStats(reportCh), then precompute() starts:
\* devices = make(map), allPrecomputeErrors = nil
ReportStats ==
    /\ pc = "reportstats"
    /\ Send(Msg("Ingestor", "Info", 0))
    /\ devices' = NewMap(cycle)
    /\ allPrecomputeErrors' = {}
    /\ idx' = 1
    /\ pc' = "precompute"
    /\ UNCHANGED <<cycle, AllDevicesMustBuild, reports, watch, envVars, deviceRepo,
                   inventory, compVars, result, preSet, computeInvoked, closedInCycle>>

\* ---------------------------------------------------------------- precompute
\* one iteration of the range loop where device.NewDevice succeeded
PrecomputeOk ==
    /\ pc = "precompute"
    /\ idx <= inventory
    /\ devices' = MapSet(devices, idx, "model")
    /\ idx' = idx + 1
    /\ UNCHANGED <<supVars, AllDevicesMustBuild, reports, reportCh, watch, envVars,
                   deviceRepo, inventory, allPrecomputeErrors, compVars, result, sent,
                   preSet, computeInvoked, closedInCycle>>

\* mutant: the failure marker is not stored, the device is missing from the map
PrecomputeFailNoEntry ==
    /\ pc = "precompute"
    /\ idx <= inventory
    /\ Send(Msg("Precompute", "Error", idx))
    /\ allPrecomputeErrors' = allPrecomputeErrors \cup {idx}
    /\ idx' = idx + 1
    /\ UNCHANGED <<supVars, AllDevicesMustBuild, reports, watch, envVars, deviceRepo,
                   inventory, devices, compVars, result, preSet, computeInvoked,
                   closedInCycle>>

\* one iteration where device.NewDevice returned an error
PrecomputeFail ==
    /\ pc = "precompute"
    /\ idx <= inventory
    /\ devices' = MapSet(devices, idx, "nil")
    /\ Send(Msg("Precompute", "Error", idx))
    /\ allPrecomputeErrors' = allPrecomputeErrors \cup {idx}
    /\ idx' = idx + 1
    /\ UNCHANGED <<supVars, AllDevicesMustBuild, reports, watch, envVars, deviceRepo,
                   inventory, compVars, result, preSet, computeInvoked, closedInCycle>>

\* return devices, allPrecomputeErrors
PrecomputeReturn ==
    /\ pc = "precompute"
    /\ idx > inventory
    /\ pc' = "policy"
    /\ UNCHANGED <<cycle, AllDevicesMustBuild, reports, reportCh, watch, envVars,
                   deviceRepo, locVars, compVars, result, sent, preSet, computeInvoked, closedInCycle>>

\* entry of compute(): wg, failed := false, builtCount, mutex
ComputeEntry ==
    /\ computeInvoked' = TRUE
    /\ idx' = 1
    /\ task' = [h \in Hosts |-> "none"]
    /\ wgCount' = 0
    /\ failed' = FALSE
    /\ builtCount' = 0
    /\ mutex' = 0
    /\ pc' = "compute"

\* mutant: the policy flag is not consulted, a precompute error only warns
CheckPolicyIgnoringFlag ==
    /\ pc = "policy"
    /\ IF allPrecomputeErrors # {}
       THEN /\ pc' = "warn"
            /\ UNCHANGED <<idx, compVars, computeInvoked, result>>
       ELSE /\ ComputeEntry
            /\ UNCHANGED result
    /\ UNCHANGED <<cycle, AllDevicesMustBuild, reports, reportCh, watch, envVars,
                   deviceRepo, inventory, devices, allPrecomputeErrors, sent, preSet,
                   closedInCycle>>

\* mutant: with the policy disabled compute is entered without the Warning
CheckPolicySilent ==
    /\ pc = "policy"
    /\ IF allPrecomputeErrors # {} /\ AllDevicesMustBuild
       THEN /\ result' = AllMustBuildResult
            /\ pc' = "returned"
            /\ UNCHANGED <<idx, compVars, computeInvoked>>
       ELSE /\ ComputeEntry
            /\ UNCHANGED result
    /\ UNCHANGED <<cycle, AllDevicesMustBuild, reports, reportCh, watch, envVars,
                   deviceRepo, inventory, devices, allPrecomputeErrors, sent, preSet,
                   closedInCycle>>

\* if precomputeError != nil { if AllDevicesMustBuild { return nil, stats, err } ... }
CheckPolicy ==
    /\ pc = "policy"
    /\ IF allPrecomputeErrors # {}
       THEN IF AllDevicesMustBuild
            THEN /\ result' = AllMustBuildResult
                 /\ pc' = "returned"
                 /\ UNCHANGED <<idx, compVars, computeInvoked>>
            ELSE /\ pc' = "warn"
                 /\ UNCHANGED <<idx, compVars, computeInvoked, result>>
       ELSE /\ ComputeEntry
            /\ UNCHANGED result
    /\ UNCHANGED <<cycle, AllDevicesMustBuild, reports, reportCh, watch, envVars,
                   deviceRepo, inventory, devices, allPrecomputeErrors, sent, preSet,
                   closedInCycle>>

\* reportCh <- Warning "build failed for some devices", then compute() is called
WarnSomeFailed ==
    /\ pc = "warn"
    /\ Send(Msg("Compute", "Warning", 0))
    /\ ComputeEntry
    /\ UNCHANGED <<cycle, AllDevicesMustBuild, reports, watch, envVars, deviceRepo,
                   inventory, devices, allPrecomputeErrors, result, preSet,
                   closedInCycle>>

\* ------------------------------------------------------------------- compute
\* mutant: the continue is missing, a goroutine is dispatched for the skipped device
ComputeSkipAndDispatch ==
    /\ pc = "compute"
    /\ idx <= inventory
    /\ devices.m[idx] = "nil"
    /\ Send(Msg("Compute", "Warning", idx))
    /\ wgCount' = wgCount + 1
    /\ task' = [task EXCEPT ![idx] = "generate"]
    /\ idx' = idx + 1
    /\ UNCHANGED <<supVars, AllDevicesMustBuild, reports, watch, envVars, deviceRepo,
                   inventory, devices, allPrecomputeErrors, failed, builtCount, mutex,
                   result, preSet, computeInvoked, closedInCycle>>

\* devices[dev.Hostname] == nil: send the Warning and continue
ComputeSkip ==
    /\ pc = "compute"
    /\ idx <= inventory
    /\ devices.m[idx] = "nil"
    /\ Send(Msg("Compute", "Warning", idx))
    /\ idx' = idx + 1
    /\ UNCHANGED <<supVars, AllDevicesMustBuild, reports, watch, envVars, deviceRepo,
                   inventory, devices, allPrecomputeErrors, compVars, result, preSet,
                   computeInvoked, closedInCycle>>

\* wg.Add(1); go func(dev) {...}(devices[dev.Hostname])
ComputeDispatch ==
    /\ pc = "compute"
    /\ idx <= inventory
    /\ devices.m[idx] # "nil"
    /\ wgCount' = wgCount + 1
    /\ task' = [task EXCEPT ![idx] = "generate"]
    /\ idx' = idx + 1
    /\ UNCHANGED <<supVars, AllDevicesMustBuild, reports, reportCh, watch, envVars,
                   deviceRepo, inventory, devices, allPrecomputeErrors, failed, builtCount,
                   mutex, result, sent, preSet, computeInvoked, closedInCycle>>

\* the goroutine: dev.Generateconfigs() returned nil
TaskGenerateOk(h) ==
    /\ task[h] = "generate"
    /\ devices' = MapSet(devices, h, "built")
    /\ task' = [task EXCEPT ![h] = "lock_ok"]
    /\ UNCHANGED <<supVars, AllDevicesMustBuild, reports, reportCh, watch, envVars,
                   deviceRepo, inventory, idx, allPrecomputeErrors, wgCount, failed,
                   builtCount, mutex, result, sent, preSet, computeInvoked, closedInCycle>>

\* the goroutine: dev.Generateconfigs() returned an error; the Error message is sent
TaskGenerateFail(h) ==
    /\ task[h] = "generate"
    /\ task' = [task EXCEPT ![h] = "send"]
    /\ UNCHANGED <<supVars, AllDevicesMustBuild, reports, reportCh, watch, envVars,
                   deviceRepo, locVars, wgCount, failed,
                   builtCount, mutex, result, sent, preSet, computeInvoked, closedInCycle>>

TaskSend(h) ==
    /\ task[h] = "send"
    /\ Send(Msg("Precompute", "Error", h))
    /\ task' = [task EXCEPT ![h] = "lock_fail"]
    /\ UNCHANGED <<supVars, AllDevicesMustBuild, reports, watch, envVars, deviceRepo,
                   locVars, wgCount, failed, builtCount, mutex, result, preSet,
                   computeInvoked, closedInCycle>>

\* mutex.Lock()
TaskLock(h) ==
    /\ task[h] \in {"lock_ok", "lock_fail"}
    /\ mutex = 0
    /\ mutex' = h
    /\ task' = [task EXCEPT ![h] = IF task[h] = "lock_ok" THEN "crit_ok" ELSE "crit_fail"]
    /\ UNCHANGED <<supVars, AllDevicesMustBuild, reports, reportCh, watch, envVars,
                   deviceRepo, locVars, wgCount, failed, builtCount, result, sent, preSet,
                   computeInvoked, closedInCycle>>

\* mutant: the counter is stored, not added to
BuiltCountStore(n) == 1

\* builtCount.Add(1) on an atomic.Uint32; the count never exceeds the number of
\* dispatched goroutines, which stays far below the wrap at 2^32
BuiltCountAdd(n) == n + 1

\* mutant: the flag is toggled, a second failure clears it
FailedToggle(f) == ~f

\* failed = true
FailedSet(f) == TRUE

\* mutant: the goroutine returns without wg.Done()
TaskFinishNoDone(h) ==
    /\ task[h] \in {"crit_ok", "crit_fail"}
    /\ mutex = h
    /\ IF task[h] = "crit_ok"
       THEN builtCount' = BuiltCountAdd(builtCount) /\ UNCHANGED failed
       ELSE failed' = FailedSet(failed) /\ UNCHANGED builtCount
    /\ mutex' = 0
    /\ task' = [task EXCEPT ![h] = "done"]
    /\ UNCHANGED <<supVars, AllDevicesMustBuild, reports, reportCh, watch, envVars,
                   deviceRepo, locVars, wgCount, result, sent, preSet, computeInvoked,
                   closedInCycle>>

\* the critical section, mutex.Unlock() and the deferred wg.Done()
TaskFinish(h) ==
    /\ task[h] \in {"crit_ok", "crit_fail"}
    /\ mutex = h
    /\ IF task[h] = "crit_ok"
       THEN builtCount' = BuiltCountAdd(builtCount) /\ UNCHANGED failed
       ELSE failed' = FailedSet(failed) /\ UNCHANGED builtCount
    /\ mutex' = 0
    /\ wgCount' = wgCount - 1
    /\ task' = [task EXCEPT ![h] = "done"]
    /\ UNCHANGED <<supVars, AllDevicesMustBuild, reports, reportCh, watch, envVars,
                   deviceRepo, locVars, result, sent, preSet, computeInvoked, closedInCycle>>

\* mutant: wg.Wait() is missing, compute returns when its range loop is over
ComputeReturnNoWait ==
    /\ pc = "compute"
    /\ idx > inventory
    /\ result' = ComputeDoneResult(devices, builtCount, failed)
    /\ pc' = "returned"
    /\ UNCHANGED <<cycle, AllDevicesMustBuild, reports, reportCh, watch, envVars,
                   deviceRepo, locVars, compVars, sent, preSet, computeInvoked, closedInCycle>>

\* wg.Wait(); successfullyBuilt := builtCount.Load(); compute returns and RunBuild
\* finishes: stats.BuiltDevicesCount = successfullyBuilt; return per computeError
ComputeReturn ==
    /\ pc = "compute"
    /\ idx > inventory
    /\ wgCount = 0
    /\ result' = ComputeDoneResult(devices, builtCount, failed)
    /\ pc' = "returned"
    /\ UNCHANGED <<cycle, AllDevicesMustBuild, reports, reportCh, watch, envVars,
                   deviceRepo, locVars, compVars, sent, preSet, computeInvoked, closedInCycle>>

\* ========================================= StartBuildLoop, after RunBuild
\* mutant: a failed build returns from StartBuildLoop
BuildFailedStops ==
    /\ pc = "returned"
    /\ result.err # "nil"
    /\ reports' = UpdateStats(UpdateStatus(reports, "Failed"), result.built)
    /\ pc' = "done"
    /\ UNCHANGED <<cycle, AllDevicesMustBuild, reportCh, watch, envVars, deviceRepo,
                   locVars, compVars, result, sent, preSet, computeInvoked, closedInCycle>>

\* err != nil: metricsRegistry.BuildFailed(); UpdateStatus(Failed); UpdateStats(stats)
BuildFailed ==
    /\ pc = "returned"
    /\ result.err # "nil"
    /\ reports' = UpdateStats(UpdateStatus(reports, "Failed"), result.built)
    /\ pc' = "complete"
    /\ UNCHANGED <<cycle, AllDevicesMustBuild, reportCh, watch, envVars, deviceRepo,
                   locVars, compVars, result, sent, preSet, computeInvoked, closedInCycle>>

\* router.DevicesRepository.Set(devs): the whole set is replaced
DevicesRepositorySet(old, devs) == devs

\* mutant: Set is called whatever RunBuild returned
SetDevicesAlways ==
    /\ pc = "returned"
    /\ deviceRepo' = DevicesRepositorySet(deviceRepo, result.devs)
    /\ pc' = "published"
    /\ UNCHANGED <<cycle, AllDevicesMustBuild, reports, reportCh, watch, envVars, locVars,
                   compVars, result, sent, preSet, computeInvoked, closedInCycle>>

\* mutant: the status is set to Success where Set should be called
SetDevicesStatusFirst ==
    /\ pc = "returned"
    /\ result.err = "nil"
    /\ reports' = UpdateStatus(reports, "Success")
    /\ pc' = "published"
    /\ UNCHANGED <<cycle, AllDevicesMustBuild, reportCh, watch, envVars, deviceRepo,
                   locVars, compVars, result, sent, preSet, computeInvoked, closedInCycle>>

\* err == nil: deviceRepo.Set(devs)
SetDevices ==
    /\ pc = "returned"
    /\ result.err = "nil"
    /\ deviceRepo' = DevicesRepositorySet(deviceRepo, result.devs)
    /\ pc' = "published"
    /\ UNCHANGED <<cycle, AllDevicesMustBuild, reports, reportCh, watch, envVars, locVars,
                   compVars, result, sent, preSet, computeInvoked, closedInCycle>>

\* UpdateStatus(Success); UpdateStats(stats); MarkAsSuccessful()
BuildSuccessful ==
    /\ pc = "published"
    /\ reports' = MarkAsSuccessfulValue(
                      UpdateStats(UpdateStatus(reports, "Success"), result.built))
    /\ pc' = "complete"
    /\ UNCHANGED <<cycle, AllDevicesMustBuild, reportCh, watch, envVars, deviceRepo,
                   locVars, compVars, result, sent, preSet, computeInvoked, closedInCycle>>

\* reports.MarkAsComplete()
MarkAsComplete ==
    /\ pc = "complete"
    /\ reports' = MarkAsCompleteValue(reports)
    /\ pc' = "close"
    /\ UNCHANGED <<cycle, AllDevicesMustBuild, reportCh, watch, envVars, deviceRepo,
                   locVars, compVars, result, sent, preSet, computeInvoked, closedInCycle>>

\* mutant: the loop does not wait for the observer after closing the channel
CloseReportChNoWait ==
    /\ pc = "close"
    /\ reportCh' = [reportCh EXCEPT !.closed = TRUE]
    /\ pc' = "poll"
    /\ UNCHANGED <<cycle, AllDevicesMustBuild, reports, watch, envVars, deviceRepo,
                   locVars, compVars, result, sent, preSet, computeInvoked, closedInCycle>>

\* close(reportCh)
CloseReportCh ==
    /\ pc = "close"
    /\ reportCh' = [reportCh EXCEPT !.closed = TRUE]
    /\ pc' = "wgwait"
    /\ UNCHANGED <<cycle, AllDevicesMustBuild, reports, watch, envVars, deviceRepo,
                   locVars, compVars, result, sent, preSet, computeInvoked, closedInCycle>>

\* mutant: the loop goes on without waiting for the observer
WgWaitNoWait ==
    /\ pc = "wgwait"
    /\ pc' = "poll"
    /\ UNCHANGED <<cycle, AllDevicesMustBuild, reports, reportCh, watch, envVars,
                   deviceRepo, locVars, compVars, result, sent, preSet, computeInvoked,
                   closedInCycle>>

\* wg.Wait(): returns once the observer goroutine has called wg.Done()
WgWait ==
    /\ pc = "wgwait"
    /\ watch = "done"
    /\ pc' = "poll"
    /\ UNCHANGED <<cycle, AllDevicesMustBuild, reports, reportCh, watch, envVars,
                   deviceRepo, locVars, compVars, result, sent, preSet, computeInvoked, closedInCycle>>

\* mutant: ok is not tested, a closed trigger starts the next cycle like a signal
AfterTriggerIgnoringOk(ok) == "loop"

\* mutant: any receive from the trigger returns from StartBuildLoop
AfterTriggerAlwaysStop(ok) == "done"

\* The position the loop takes after a receive from triggerNewBuild: ok = false
\* returns from StartBuildLoop, ok = true falls out of the select to the loop top.
AfterTrigger(ok) == IF ok THEN "loop" ELSE "done"

\* The select is entered: time.After(Interval) has just been armed (Interval > 0),
\* so only the trigger case can be ready. A pending value is received first
\* (ok = true); a closed and drained channel yields ok = false; otherwise the
\* goroutine parks on both cases. wake records the case the select took:
\* "polled_signal" / "polled_closed" without parking, "timer" / "signal" /
\* "closed" after parking, "none" while parked.
SelectPoll ==
    /\ pc = "poll"
    /\ IF triggerNewBuild.pending > 0
       THEN /\ triggerNewBuild' = [triggerNewBuild EXCEPT !.pending = @ - 1]
            /\ pc' = AfterTrigger(TRUE)
            /\ wake' = "polled_signal"
       ELSE IF triggerNewBuild.closed
            THEN /\ pc' = AfterTrigger(FALSE)
                 /\ wake' = "polled_closed"
                 /\ UNCHANGED triggerNewBuild
            ELSE /\ pc' = "select"
                 /\ wake' = "none"
                 /\ UNCHANGED triggerNewBuild
    /\ UNCHANGED <<cycle, AllDevicesMustBuild, reports, reportCh, watch, deviceRepo,
                   locVars, compVars, result, sent, preSet, computeInvoked, closedInCycle>>

\* The parked select resumes with the case that woke it.
SelectResume ==
    /\ pc = "select"
    /\ wake # "none"
    /\ pc' = CASE wake = "timer"  -> "loop"
               [] wake = "signal" -> AfterTrigger(TRUE)
               [] wake = "closed" -> AfterTrigger(FALSE)
    /\ UNCHANGED <<cycle, AllDevicesMustBuild, reports, reportCh, watch, envVars,
                   deviceRepo, locVars, compVars, result, sent, preSet, computeInvoked, closedInCycle>>

\* ============================================================== environment
Parked == pc = "select" /\ wake = "none"

\* the timer of time.After(config.Cfg.Build.Interval) fires while the select is parked
IntervalElapsed ==
    /\ Parked
    /\ wake' = "timer"
    /\ UNCHANGED <<supVars, AllDevicesMustBuild, reports, reportCh, watch,
                   triggerNewBuild, deviceRepo, locVars, compVars, result, sent, preSet,
                   computeInvoked, closedInCycle>>

\* somebody sends on triggerNewBuild: handed to the parked select, else left pending
TriggerSignal ==
    /\ ~triggerNewBuild.closed
    /\ IF Parked
       THEN wake' = "signal" /\ UNCHANGED triggerNewBuild
       ELSE /\ triggerNewBuild.pending < MaxPending
            /\ triggerNewBuild' = [triggerNewBuild EXCEPT !.pending = @ + 1]
            /\ UNCHANGED wake
    /\ UNCHANGED <<supVars, AllDevicesMustBuild, reports, reportCh, watch, deviceRepo,
                   locVars, compVars, result, sent, preSet, computeInvoked, closedInCycle>>

\* positions of the loop body from StartNewReport's return to the return of wg.Wait
InCycle ==
    {"started", "fetch", "reportstats", "precompute", "policy", "warn", "compute",
     "returned", "published", "complete", "close", "wgwait"}

\* somebody closes triggerNewBuild
TriggerClose ==
    /\ ~triggerNewBuild.closed
    /\ triggerNewBuild' = [triggerNewBuild EXCEPT !.closed = TRUE]
    /\ wake' = IF Parked THEN "closed" ELSE wake
    /\ closedInCycle' = (pc \in InCycle)
    /\ UNCHANGED <<supVars, AllDevicesMustBuild, reports, reportCh, watch, deviceRepo,
                   locVars, compVars, result, sent, preSet, computeInvoked>>

\* ====================================================== reports.Watch(reportCh)
\* the observer receives one message and adds it to the current report
WatchReceive ==
    /\ watch = "running"
    /\ reportCh.buf # <<>>
    /\ reports' = [reports EXCEPT !.messages = @ (+) SetToBag({Head(reportCh.buf)})]
    /\ reportCh' = [reportCh EXCEPT !.buf = Tail(@)]
    /\ UNCHANGED <<supVars, AllDevicesMustBuild, watch, envVars, deviceRepo, locVars,
                   compVars, result, sent, preSet, computeInvoked, closedInCycle>>

\* the channel is closed and drained: Watch returns, wg.Done()
WatchExit ==
    /\ watch = "running"
    /\ reportCh.buf = <<>>
    /\ reportCh.closed
    /\ watch' = "done"
    /\ UNCHANGED <<supVars, AllDevicesMustBuild, reports, reportCh, envVars, deviceRepo,
                   locVars, compVars, result, sent, preSet, computeInvoked, closedInCycle>>

Next ==
    \/ StartNewReport
    \/ UpdateStatusInProgress
    \/ FetchAssets
    \/ ReportStats
    \/ PrecomputeOk
    \/ PrecomputeFail
    \/ PrecomputeReturn
    \/ CheckPolicy
    \/ WarnSomeFailed
    \/ ComputeSkip
    \/ ComputeDispatch
    \/ \E h \in Hosts : TaskGenerateOk(h)
    \/ \E h \in Hosts : TaskGenerateFail(h)
    \/ \E h \in Hosts : TaskSend(h)
    \/ \E h \in Hosts : TaskLock(h)
    \/ \E h \in Hosts : TaskFinish(h)
    \/ ComputeReturn
    \/ BuildFailed
    \/ SetDevices
    \/ BuildSuccessful
    \/ MarkAsComplete
    \/ CloseReportCh
    \/ WgWait
    \/ SelectPoll
    \/ SelectResume
    \/ IntervalElapsed
    \/ TriggerSignal
    \/ TriggerClose
    \/ WatchReceive
    \/ WatchExit

Spec == Init /\ [][Next]_vars


\* ------------------------------------------------------------------ fairness
\* The Go scheduler runs every runnable goroutine: the loop goroutine, each
\* compute goroutine and the observer take their next step when it is enabled.
\* Nothing is assumed of the interval timer.
LoopStep ==
    \/ StartNewReport \/ UpdateStatusInProgress \/ FetchAssets \/ ReportStats
    \/ PrecomputeOk \/ PrecomputeFail \/ PrecomputeReturn \/ CheckPolicy
    \/ WarnSomeFailed \/ ComputeSkip \/ ComputeDispatch \/ ComputeReturn
    \/ BuildFailed \/ SetDevices \/ BuildSuccessful \/ MarkAsComplete
    \/ CloseReportCh \/ WgWait \/ SelectPoll \/ SelectResume

TaskStep(h) ==
    \/ TaskGenerateOk(h) \/ TaskGenerateFail(h) \/ TaskSend(h) \/ TaskLock(h)
    \/ TaskFinish(h)

WatchStep == WatchReceive \/ WatchExit

\* The loop with the trigger left alone (nobody sends on it or closes it): cycles
\* are separated by the interval timer only.
QuietNext ==
    \/ LoopStep
    \/ \E h \in Hosts : TaskStep(h)
    \/ WatchStep
    \/ IntervalElapsed

FairQuietSpec ==
    /\ Init
    /\ [][QuietNext]_vars
    /\ WF_vars(LoopStep)
    /\ \A h \in Hosts : SF_vars(TaskStep(h))
    /\ WF_vars(WatchStep)

\* ===================================================================== claims
\* positions of a cycle before the outcome of RunBuild has been acted upon
BeforeOutcome ==
    {"started", "fetch", "reportstats", "precompute", "policy", "warn", "compute",
     "returned"}

\* positions of RunBuild at which compute() has been entered or has returned
AfterPolicy == {"warn", "compute", "returned", "published", "complete", "close",
                "wgwait", "poll", "select", "loop", "done"}

\* RunBuild of the current cycle has returned
Returned == result.err # "none"

\* hostnames of the inventory whose precompute entry is the failure marker
Marked == {h \in DOMAIN devices.m : devices.m[h] = "nil"}

\* hostnames for which a compute goroutine was dispatched
Dispatched == {h \in Hosts : task[h] # "none"}

\* C1: until Set is reached the downstream set is the one the cycle started with;
\* from then on it is the mapping RunBuild returned if the error was nil, and
\* still the pre-cycle set if RunBuild returned an error.
C1_PublishOnlyOnSuccess ==
    IF pc \in BeforeOutcome \/ result.err # "nil"
    THEN deviceRepo = preSet
    ELSE deviceRepo = result.devs /\ deviceRepo.gen = cycle

\* a failed second cycle left the set published by the first cycle in place
C1_Witness ==
    /\ cycle = 2
    /\ pc = "poll"
    /\ result.err = "compute"
    /\ deviceRepo.gen = 1
    /\ MapLen(deviceRepo) = 2

\* C2: whenever RunBuild has returned a non-nil error the map it returned is nil.
C2_NoDevicesWithError ==
    (Returned /\ result.err # "nil") => result.devs = NilDevices

\* compute failed after one device had been built: the built device is not returned
C2_Witness ==
    /\ result.err = "compute"
    /\ \E h \in DOMAIN devices.m : devices.m[h] = "built"
    /\ result.devs = NilDevices

\* C3: policy enabled and at least one precompute failure: compute is not invoked,
\* no goroutine is dispatched, and RunBuild returns the error with a nil map.
C3_StrictPolicyAborts ==
    (AllDevicesMustBuild /\ allPrecomputeErrors # {}) =>
        /\ ~computeInvoked
        /\ Dispatched = {}
        /\ pc \notin {"warn", "compute"}
        /\ pc \notin {"precompute", "policy"} =>
               (result.err = "allmustbuild" /\ result.devs = NilDevices)

\* strict policy, two devices, one of them failed precompute, RunBuild returned
C3_Witness ==
    /\ AllDevicesMustBuild
    /\ inventory = 2
    /\ Cardinality(allPrecomputeErrors) = 1
    /\ pc = "returned"
    /\ result.err = "allmustbuild"

\* C4: policy disabled and M >= 1 of N devices failed precompute: the Warning is
\* sent once, compute is invoked, the goroutines dispatched are those of the N-M
\* devices with a model, and if all of them are built RunBuild returns a nil error
\* and a built count of N-M.
C4_LenientPolicyBuildsTheRest ==
    (~AllDevicesMustBuild /\ allPrecomputeErrors # {} /\ pc \in AfterPolicy
       /\ pc # "warn") =>
        /\ CopiesIn(Msg("Compute", "Warning", 0), sent) = 1
        /\ computeInvoked
        /\ (pc # "compute" \/ idx > inventory) =>
               /\ Dispatched = (1..inventory) \ allPrecomputeErrors
               /\ Cardinality(Dispatched) = inventory - Cardinality(allPrecomputeErrors)
        /\ (Returned /\ \A h \in (1..inventory) \ allPrecomputeErrors :
                            devices.m[h] = "built") =>
               /\ result.err = "nil"
               /\ result.built = inventory - Cardinality(allPrecomputeErrors)

\* two devices, one failed precompute, the other was built: success with count 1
C4_Witness ==
    /\ ~AllDevicesMustBuild
    /\ inventory = 2
    /\ Cardinality(allPrecomputeErrors) = 1
    /\ pc = "returned"
    /\ result.err = "nil"
    /\ result.built = 1

\* C5: a close that arrives while the select is parked wakes it with the closed
\* case; from there the loop only returns, and once it has returned no
\* StartNewReport, RunBuild or Set happens any more.
C5_Step ==
    /\ (Parked /\ ~triggerNewBuild.closed /\ triggerNewBuild'.closed) => wake' = "closed"
    /\ (pc = "select" /\ wake = "closed") =>
           /\ pc' \in {"select", "done"}
           /\ UNCHANGED <<cycle, reports, deviceRepo, result, reportCh, watch>>
    /\ (pc = "done") =>
           UNCHANGED <<pc, cycle, reports, deviceRepo, result, reportCh, watch>>

C5_CloseInWaitStopsLoop == [][C5_Step]_vars

\* the loop returned after its first cycle because the parked select saw the close
C5_Witness ==
    /\ pc = "done"
    /\ wake = "closed"
    /\ cycle = 1

\* C6: a signal that arrives while the select is parked is handed to it (it is not
\* queued and the timer has not fired); the select can resume at once, and when it
\* does the loop goes to its top, where the next step starts the next cycle; it
\* does not return.
C6_Step ==
    /\ (Parked /\ wake' = "signal") => UNCHANGED <<triggerNewBuild, pc>>
    /\ (pc = "select" /\ wake = "signal") => pc' \in {"select", "loop"}
    /\ (pc = "loop" /\ wake = "signal" /\ pc' # "loop") =>
           (pc' = "started" /\ cycle' = cycle + 1)

C6_SignalInWaitStartsCycle ==
    /\ []((pc = "select" /\ wake = "signal") => ENABLED SelectResume)
    /\ [][C6_Step]_vars

\* the second cycle was started by a signal received in the wait, the trigger open
C6_Witness ==
    /\ pc = "started"
    /\ wake = "signal"
    /\ cycle = 2
    /\ ~triggerNewBuild.closed

\* C7: the loop returns only from the select and only with the trigger closed; a
\* cycle whose RunBuild returned an error goes on through the failure handling,
\* MarkAsComplete, close and wg.Wait to the select, and with the trigger open the
\* select leads to the wait or to the loop top.
C7_Step ==
    /\ (pc' = "done" /\ pc # "done") =>
           (pc \in {"poll", "select"} /\ triggerNewBuild.closed)
    /\ (pc = "returned" /\ result.err # "nil") => pc' \in {"returned", "complete"}
    /\ (pc = "complete") => pc' \in {"complete", "close"}
    /\ (pc = "close") => pc' \in {"close", "wgwait"}
    /\ (pc = "wgwait") => pc' \in {"wgwait", "poll"}
    /\ (pc = "poll" /\ ~triggerNewBuild.closed) => pc' \in {"poll", "select", "loop"}
    /\ (pc = "select" /\ ~triggerNewBuild.closed) => pc' \in {"select", "loop"}

C7_OnlyCloseTerminates ==
    /\ [](pc = "done" => triggerNewBuild.closed)
    /\ [][C7_Step]_vars

\* a cycle that failed was followed by the start of the next cycle
C7_Witness ==
    /\ cycle = 2
    /\ pc = "started"
    /\ reports.status = "Failed"
    /\ ~triggerNewBuild.closed

\* the cycle's remaining steps, in order: the position after each position
NextPos(p) ==
    CASE p = "started"     -> {"fetch"}
      [] p = "fetch"       -> {"reportstats", "returned"}
      [] p = "reportstats" -> {"precompute"}
      [] p = "precompute"  -> {"precompute", "policy"}
      [] p = "policy"      -> {"warn", "compute", "returned"}
      [] p = "warn"        -> {"compute"}
      [] p = "compute"     -> {"compute", "returned"}
      [] p = "returned"    -> {"published", "complete"}
      [] p = "published"   -> {"complete"}
      [] p = "complete"    -> {"close"}
      [] p = "close"       -> {"wgwait"}
      [] p = "wgwait"      -> {"poll"}

\* a cycle with the trigger closed is not preempted: every step of the loop
\* goroutine is the cycle's next step, and the select is reached with the outcome
\* handled, the report marked complete, the channel closed and the observer gone
C8_NotPreempted ==
    /\ (triggerNewBuild.closed /\ pc \in InCycle /\ pc' # pc) => pc' \in NextPos(pc)
    /\ (pc \in InCycle /\ pc' = "poll") =>
           /\ Returned
           /\ reports.status = (IF result.err = "nil" THEN "Success" ELSE "Failed")
           /\ (result.err = "nil" => deviceRepo = result.devs)
           /\ reports.complete
           /\ reportCh.closed
           /\ watch = "done"

\* C8 as stated: a close during a cycle does not preempt it, and at the select
\* that follows the loop terminates instead of starting another cycle.
C8_AsStated ==
    [][/\ C8_NotPreempted
       /\ (closedInCycle /\ pc = "poll") => pc' \in {"poll", "done"}]_vars

\* C8 as amended: a close during a cycle does not preempt it; at the select that
\* follows, values still pending on the trigger are received before the close is
\* seen, each starting one more cycle, and with none pending the loop terminates.
C8_Amended ==
    [][/\ C8_NotPreempted
       /\ (closedInCycle /\ pc = "poll" /\ triggerNewBuild.pending = 0) =>
              pc' \in {"poll", "done"}
       /\ (closedInCycle /\ pc = "poll" /\ triggerNewBuild.pending > 0 /\ pc' # pc) =>
              /\ pc' = "loop"
              /\ triggerNewBuild'.pending = triggerNewBuild.pending - 1]_vars

\* the trigger was closed during the first cycle, which then ran to its end, and
\* the loop returned at the select
C8_Witness ==
    /\ closedInCycle
    /\ cycle = 1
    /\ pc = "done"
    /\ reports.complete
    /\ watch = "done"

\* C9: precompute gives every device of the inventory handled so far exactly one
\* entry, a model or the failure marker; a device has the marker iff its error was
\* joined, and then exactly one Error message was sent for it, else none; on return
\* the map has N entries and the joined error is non-nil iff some entry is a marker.
\* With the observer receiving, precompute returns.
C9_Entries ==
    pc \in {"precompute", "policy"} =>
        LET handled == IF pc = "policy" THEN inventory ELSE idx - 1 IN
        /\ DOMAIN devices.m = 1..handled
        /\ \A h \in 1..handled :
               /\ devices.m[h] \in {"model", "nil"}
               /\ (devices.m[h] = "nil") <=> (h \in allPrecomputeErrors)
               /\ CopiesIn(Msg("Precompute", "Error", h), sent)
                      = (IF devices.m[h] = "nil" THEN 1 ELSE 0)
        /\ pc = "policy" =>
               /\ MapLen(devices) = inventory
               /\ (allPrecomputeErrors # {}) <=> (Marked # {})

C9_PrecomputeTotal ==
    /\ []C9_Entries
    /\ (pc = "precompute") ~> (pc = "policy")

\* precompute returned for two devices, one with a model and one with the marker
C9_Witness ==
    /\ pc = "policy"
    /\ inventory = 2
    /\ devices.m[1] = "nil"
    /\ devices.m[2] = "model"
    /\ allPrecomputeErrors = {1}

\* C10: of the devices the range loop of compute has handled, exactly those with a
\* model got a goroutine and exactly those with the failure marker got one Warning;
\* when the loop is over N-M goroutines were dispatched; compute returns an error
\* only if a dispatched goroutine's Generateconfigs failed.
C10_DispatchOnlyValid ==
    (computeInvoked /\ pc \in AfterPolicy /\ pc # "warn") =>
        LET handled == IF pc = "compute" THEN idx - 1 ELSE inventory IN
        /\ Dispatched = {h \in 1..handled : devices.m[h] # "nil"}
        /\ wgCount = Cardinality({h \in Dispatched : task[h] # "done"})
        /\ \A h \in 1..inventory :
               CopiesIn(Msg("Compute", "Warning", h), sent)
                   = (IF h <= handled /\ devices.m[h] = "nil" THEN 1 ELSE 0)
        /\ handled = inventory =>
               Cardinality(Dispatched) = inventory - Cardinality(Marked)
        /\ (Returned /\ result.err # "nil") =>
               (\E h \in Dispatched : devices.m[h] = "model")

\* two devices, one skipped with a Warning and one dispatched and built: no error
C10_Witness ==
    /\ pc = "returned"
    /\ inventory = 2
    /\ Marked = {1}
    /\ Dispatched = {2}
    /\ CopiesIn(Msg("Compute", "Warning", 1), sent) = 1
    /\ result.err = "nil"


\* dispatched goroutines whose Generateconfigs returned nil / an error, and which
\* have run to their end
DoneOk   == {h \in Dispatched : task[h] = "done" /\ devices.m[h] = "built"}
DoneFail == {h \in Dispatched : task[h] = "done" /\ devices.m[h] = "model"}

\* compute() has been called in this cycle and has returned
ComputeReturned == computeInvoked /\ Returned

\* C11: at every moment of compute the counter is the number of goroutines that
\* finished without error, whatever their interleaving; the count compute returns
\* is the number of dispatched goroutines that succeeded, which is N-M minus the
\* number that failed and lies between 0 and N-M.
C11_CountIsSuccesses ==
    computeInvoked =>
        /\ builtCount = Cardinality(DoneOk)
        /\ ComputeReturned =>
               /\ result.built = Cardinality(DoneOk)
               /\ result.built = (inventory - Cardinality(Marked)) - Cardinality(DoneFail)
               /\ result.built >= 0
               /\ result.built <= inventory - Cardinality(Marked)

\* two goroutines succeeded and compute returned the count 2
C11_Witness ==
    /\ ComputeReturned
    /\ Cardinality(Dispatched) = 2
    /\ result.built = 2

\* C12: at every moment of compute the flag is set iff some goroutine has finished
\* with an error (so it is never cleared by a later goroutine); every goroutine that
\* failed and got past its send has sent exactly one Error message, the others
\* none; compute returns an error iff at least one dispatched goroutine failed.
C12_ErrorIffTaskFailed ==
    computeInvoked =>
        /\ failed <=> (DoneFail # {})
        /\ \A h \in Dispatched :
               CopiesIn(Msg("Precompute", "Error", h), sent)
                   = (IF task[h] \in {"lock_fail", "crit_fail"} \/ h \in DoneFail
                      THEN 1 ELSE 0)
        /\ ComputeReturned => ((result.err = "compute") <=> (DoneFail # {}))

\* both goroutines failed: the flag stayed set and compute returned the error
C12_Witness ==
    /\ ComputeReturned
    /\ Cardinality(DoneFail) = 2
    /\ result.err = "compute"


\* C13: every change of the report status is Idle -> InProgress, Success ->
\* InProgress, Failed -> InProgress, InProgress -> Success or InProgress -> Failed;
\* so Idle is never entered again and Success and Failed never follow one another
\* directly. The status is Idle exactly until the first cycle sets InProgress.
C13_Step ==
    /\ (reports'.status # reports.status) =>
           \/ /\ reports.status \in {"Idle", "Success", "Failed"}
              /\ reports'.status = "InProgress"
           \/ /\ reports.status = "InProgress"
              /\ reports'.status \in {"Success", "Failed"}
    /\ (reports.status # "Idle") => (reports'.status # "Idle")

C13_StatusMachine ==
    /\ [](reports.status = "Idle" <=> (cycle = 0 \/ (cycle = 1 /\ pc = "started")))
    /\ [][C13_Step]_vars

\* the second cycle has moved the status from Failed to InProgress
C13_Witness ==
    /\ cycle = 2
    /\ pc = "fetch"
    /\ reports.status = "InProgress"
    /\ preSet = NilDevices


\* precompute() has been entered in this cycle: its map has been made
PrecomputeStarted == cycle > 0 /\ devices.gen = cycle

\* precompute() has returned in this cycle
PrecomputeReturned ==
    /\ PrecomputeStarted
    /\ pc # "precompute"
    /\ DOMAIN devices.m = 1..inventory

\* C14: before fetch has returned precompute has not started; precompute starts
\* only with fetch having returned no error; compute is entered, and a goroutine
\* dispatched, only after precompute has returned; a cycle whose fetch failed has
\* RunBuild return the fetch error with neither precompute nor compute run.
C14_StageOrder ==
    /\ pc \in {"started", "fetch"} => ~PrecomputeStarted
    /\ PrecomputeStarted => result.err # "fetch"
    /\ pc \in {"started", "fetch", "reportstats", "precompute", "policy", "warn"} =>
           (~computeInvoked /\ Dispatched = {})
    /\ (computeInvoked \/ Dispatched # {}) => PrecomputeReturned
    /\ result.err = "fetch" =>
           /\ ~PrecomputeStarted
           /\ ~computeInvoked
           /\ Dispatched = {}
           /\ result.devs = NilDevices

\* both stages ran in order: two models from precompute, then a goroutine running
C14_Witness ==
    /\ pc = "compute"
    /\ PrecomputeReturned
    /\ inventory = 2
    /\ task[1] = "generate"


\* no compute goroutine is running
NoProducer == \A h \in Hosts : task[h] \in {"none", "done"}

\* positions of the loop goroutine at which it sends on reportCh
SendingPositions == {"reportstats", "precompute", "warn", "compute"}

\* C15: when compute has returned every dispatched goroutine has run to its end,
\* its message sent, its counter or flag update made, the mutex released and
\* wg.Done() called; so once RunBuild has returned no producer is running, and
\* when the report channel of a cycle is closed nobody is left that could send on it.
C15_BarrierBeforeReturn ==
    /\ ComputeReturned =>
           /\ \A h \in Dispatched : task[h] = "done"
           /\ wgCount = 0
           /\ mutex = 0
           /\ builtCount + Cardinality(DoneFail) = Cardinality(Dispatched)
    /\ Returned => (NoProducer /\ pc \notin SendingPositions)
    /\ (cycle > 0 /\ reportCh.closed) =>
           (Returned /\ NoProducer /\ pc \notin SendingPositions)

\* the channel is closed after a compute in which a goroutine sent its Error
\* message and another one was built
C15_Witness ==
    /\ reportCh.closed
    /\ ComputeReturned
    /\ Cardinality(DoneFail) = 1
    /\ Cardinality(DoneOk) = 1
    /\ CopiesIn(Msg("Precompute", "Error", 1), sent) = 1


\* the messages of a sequence as a bag
RECURSIVE SeqToBag(_)
SeqToBag(q) == IF q = <<>> THEN EmptyBag ELSE SetToBag({Head(q)}) (+) SeqToBag(Tail(q))

\* positions between the return of wg.Wait() and the next StartNewReport
BetweenCycles == {"poll", "select", "loop", "done"}

\* C16: every message sent in the cycle is in the report or still in the channel,
\* once each; when the loop has passed wg.Wait() the channel is closed and empty,
\* the observer has returned and the report holds exactly the messages sent in
\* that cycle; when the next report is started and the next observer spawned no
\* observer of an earlier cycle is running.
C16_ObserverDrainsBeforeNext ==
    cycle > 0 =>
        /\ reports.messages (+) SeqToBag(reportCh.buf) = sent
        /\ pc \in BetweenCycles =>
               /\ reportCh.closed
               /\ reportCh.buf = <<>>
               /\ watch = "done"
               /\ reports.messages = sent
        /\ pc = "started" =>
               /\ watch # "running"
               /\ reports.messages = EmptyBag
               /\ sent = EmptyBag

\* the second cycle ended with three messages sent, all in its report, the
\* observer gone
C16_Witness ==
    /\ cycle = 2
    /\ pc = "poll"
    /\ BagCardinality(sent) = 3
    /\ reports.messages = sent
    /\ watch = "done"


\* C17: every entry of a map RunBuild returns with a nil error, and of the set the
\* loop then publishes with Set, is a device whose artifact generation completed
\* without error; no entry is the failure marker.
C17_NoMarkerPublished ==
    /\ (Returned /\ result.err = "nil") =>
           \A h \in DOMAIN result.devs.m : result.devs.m[h] = "built"
    /\ \A h \in DOMAIN deviceRepo.m : deviceRepo.m[h] = "built"


\* C18: from the moment the report is marked complete its message history is final:
\* every message sent in the cycle has already been accumulated, none is still in
\* the channel to be added later.
C18_CompleteReportIsFinal ==
    reports.complete => (reportCh.buf = <<>> /\ reports.messages = sent)


\* C19: every cycle that starts runs to its end whatever fails in it: RunBuild
\* returns, the report channel is closed, the observer exits and the loop reaches
\* its wait between cycles (fetch, model building and generation return and the
\* observer keeps receiving: the fairness of FairQuietSpec).
C19_CycleCompletes ==
    \A c \in 1..MaxCycles :
        (pc = "started" /\ cycle = c)
            ~> (pc = "select" /\ cycle = c /\ Returned /\ reportCh.closed
                /\ reportCh.buf = <<>> /\ watch = "done" /\ NoProducer)

\* a cycle in which every device was dispatched and every task failed and sent its
\* Error message through the channel of capacity one has reached the wait
C19_Witness ==
    /\ Parked
    /\ inventory = MaxDevices
    /\ \A h \in Hosts : task[h] = "done"
    /\ failed
    /\ builtCount = 0
    /\ watch = "done"


\* C20: whenever the report status is Success the published set is the mapping of
\* the cycle that set the status (the map RunBuild returned in it; after the next
\* StartNewReport and until the status changes, still the previous cycle's map);
\* whenever the status is Failed the published set is the one in place when that
\* cycle started.
C20_StatusMatchesPublished ==
    /\ reports.status = "Success" =>
           /\ deviceRepo.gen = (IF pc = "started" THEN cycle - 1 ELSE cycle)
           /\ pc # "started" => deviceRepo = result.devs
    /\ reports.status = "Failed" => deviceRepo = preSet

\* a cycle after a published one has published its own map and set Success
C20_Witness ==
    /\ reports.status = "Success"
    /\ pc = "complete"
    /\ cycle > 1
    /\ preSet.gen = cycle - 1
    /\ deviceRepo.gen = cycle
    /\ MapLen(deviceRepo) > 0


====
